---- MODULE Spec2Model ----
(***************************************************************************)
(* Model of the mystatus tool of opencode-mystatus: the fan-out of the     *)
(* platform queries, the per-query timeout race (queryWithTimeout), the    *)
(* wait for all tasks (Promise.allSettled) and the merge of the outcomes   *)
(* into one report (collectResult and the tail of execute).                *)
(*                                                                         *)
(* Strings are sequences of tokens; a token is a piece of text that the    *)
(* code never looks inside.  The line break is the token "\n", so joining  *)
(* and splitting by lines is computed on the token sequence.  The empty    *)
(* string is <<>>.  An optional field (output?: string) is <<>> when it is *)
(* undefined and <<s>> when it holds the string s.                         *)
(***************************************************************************)
EXTENDS Integers, Sequences, FiniteSets, TLC

(***************************************************************************)
(* Bounds of the model.                                                    *)
(***************************************************************************)
\* how many entries of the platforms array the model runs (a prefix of it)
NumPlatforms == 2
\* how many clock ticks may pass after the launch
MaxTicks == 2

\* the values REQUEST_TIMEOUT_MS may have (lib/types.ts sets it)
TimeoutChoices == {1000, 1500}

NL == "\n"

(***************************************************************************)
(* The translation table t (the English member).                           *)
(***************************************************************************)
\* the text of the number ms / 1000 in a template string: a whole number, or
\* a decimal without trailing zeros
RECURSIVE StripZeros(_)
StripZeros(n) == IF n % 10 = 0 /\ n > 0 THEN StripZeros(n \div 10) ELSE n

NumberText(ms) ==
    IF ms % 1000 = 0
    THEN <<ToString(ms \div 1000)>>
    ELSE <<ToString(ms \div 1000), ".",
           (IF ms % 1000 < 10 THEN "00" ELSE IF ms % 1000 < 100 THEN "0" ELSE "")
               \o ToString(StripZeros(ms % 1000))>>

\* seconds: the text of the number of seconds
timeoutError(seconds) == <<"Request timeout (">> \o seconds \o <<"s)">>

noAccounts ==
    <<"No configured accounts found.", NL, NL, "Supported account types:", NL,
      "- OpenAI (Plus/Team/Pro subscribers)", NL, "- Zhipu AI (Coding Plan)", NL,
      "- Z.ai (Coding Plan)", NL, "- Google Cloud (Antigravity)">>

\* the header starts with a cross-mark sign, written here as a word
queryFailed == <<"(cross) Failed to query accounts:", NL>>

authError(path, err) ==
    <<"(cross) Failed to read auth file: ">> \o path \o <<NL, "Error: ">> \o err

authPath == <<"~/.local/share/opencode/auth.json">>

(***************************************************************************)
(* Values: query results, thrown values, promises.                         *)
(***************************************************************************)
NullResult == [isNull |-> TRUE, success |-> FALSE, output |-> <<>>, error |-> <<>>]
Success(body) == [isNull |-> FALSE, success |-> TRUE, output |-> <<body>>, error |-> <<>>]
Failure(msg) == [isNull |-> FALSE, success |-> FALSE, output |-> <<>>, error |-> <<msg>>]

\* a thrown value: an Error with a message, or any other value with its String() form
ErrorObj(msg) == [isError |-> TRUE, text |-> msg]
ThrownValue(str) == [isError |-> FALSE, text |-> str]
NoError == [isError |-> FALSE, text |-> <<>>]

\* err instanceof Error ? err.message : String(err)
ErrText(err) == err.text

\* `${reason}`: String(reason); an Error prints as "Error: <message>"
ReasonText(err) == IF err.isError THEN <<"Error: ">> \o err.text ELSE err.text

\* JavaScript truthiness of an optional string field
Truthy(opt) == opt # <<>> /\ opt[1] # <<>>

Pending == [state |-> "pending", value |-> NullResult, reason |-> NoError]
Fulfilled(v) == [state |-> "fulfilled", value |-> v, reason |-> NoError]
Rejected(e) == [state |-> "rejected", value |-> NullResult, reason |-> e]

(***************************************************************************)
(* The platforms array of execute.                                         *)
(***************************************************************************)
PlatformTable ==
    << [name |-> "OpenAI",  title |-> <<"## OpenAI Account Quota">>],
       [name |-> "ZhipuAI", title |-> <<"## Zhipu AI Account Quota">>],
       [name |-> "Z.ai",    title |-> <<"## Z.ai Account Quota">>],
       [name |-> "Google",  title |-> <<"## Google Cloud Account Quota">>],
       [name |-> "Copilot", title |-> <<"## GitHub Copilot Account Quota">>] >>

Idx == 1..NumPlatforms

platforms == [i \in Idx |-> PlatformTable[((i - 1) % 5) + 1]]

Tag(name) == <<"[", name, "]", " ">>

(***************************************************************************)
(* What a queryFn may do: throw when it is called, or return a promise     *)
(* that resolves to a result, rejects, or stays pending for ever.          *)
(***************************************************************************)
Bodies == { <<>>, <<" ">>, <<"X">>, <<"L1", NL, "L2">> }
Messages == { <<>>, <<"boom">> }
Thrown == { ErrorObj(<<"boom">>), ThrownValue(<<"oops">>) }

\* the values a queryFn's promise may resolve to
Results ==
    {NullResult} \cup { Success(b) : b \in Bodies } \cup { Failure(m) : m \in Messages }


(***************************************************************************)
(* State.                                                                  *)
(***************************************************************************)
VARIABLES
    pc,             \* where execute is: "start", "launching", "waiting", "done"
    next,           \* index of the next platform the map callback is called for
    timeoutMs,      \* REQUEST_TIMEOUT_MS
    query,          \* query[i]: "notcalled", "threw", "pending", "resolved", "rejected"
    timer,          \* timer[i]: "none", "armed", "fired"
    task,           \* task[i]: the promise queryWithTimeout returned for platform i
    race,           \* race[i]: what settled Promise.race first: "none", "pending", "query", "timer"
    settled,        \* the platforms whose task has settled, in the order they settled
    clock,          \* ticks of 1000 ms since the launch
    outputResults,  \* the lines of the success part (array of strings)
    errors,         \* the failure messages (array of strings)
    execState,      \* the promise execute returned: "pending", "fulfilled", "rejected"
    report,         \* the string execute resolved to
    thrown,         \* thrown[i]: the value queryFn threw or its promise rejected with
    calls,          \* calls[i]: how many times platform i's queryFn was called
    \* one call of queryCopilotUsage (lib/copilot.ts)
    cpc,            \* where the call is: "idle", "start", "fetching", "text", "json", "done"
    authData,       \* its argument: authData["github-copilot"]
    requests,       \* how many requests it has sent to the GitHub API
    response,       \* the response of fetchWithTimeout, once there is one
    caught,         \* the value its catch block caught
    copilotResult,  \* the promise it returned
    usage,          \* the body response.json() resolved to
    wallClock       \* the instant new Date() gave to getResetCountdown

executeVars == <<pc, next, timeoutMs, query, timer, race, task, settled, clock,
                 outputResults, errors, execState, report, thrown, calls>>

copilotVars == <<cpc, authData, requests, response, caught, copilotResult, usage, wallClock>>

vars == <<executeVars, copilotVars>>

(***************************************************************************)
(* queryWithTimeout.                                                       *)
(***************************************************************************)
\* variant: the catch block throws the caught value on
OnCaughtRethrow(platformName, err) == Rejected(err)

\* variant: the catch block prints the caught value whole
OnCaughtString(platformName, err) == Fulfilled(Failure(Tag(platformName) \o ReasonText(err)))

\* the catch block: queryFn threw, or the race rejected
OnCaught(platformName, err) == Fulfilled(Failure(Tag(platformName) \o ErrText(err)))

\* variant: the timer passes the milliseconds where the seconds are meant
OnTimeoutRawMs(platformName, ms) ==
    Fulfilled(Failure(Tag(platformName) \o timeoutError(NumberText(ms * 1000))))

\* the timer callback resolves the race first
OnTimeout(platformName, ms) ==
    Fulfilled(Failure(Tag(platformName) \o timeoutError(NumberText(ms))))

\* queryFn's promise resolves the race first: return result
OnResult(result) == Fulfilled(result)

\* Promise.race takes the first settlement only: a settled race stays as it is
Race(i, by) == IF race[i] = "pending" THEN [race EXCEPT ![i] = by] ELSE race

\* variant: the last settlement wins
SettleLast(i, outcome) == [task EXCEPT ![i] = outcome]

\* the task settles when its race does, or at once when queryFn throws
Settle(i, outcome) == IF task[i].state = "pending" THEN [task EXCEPT ![i] = outcome] ELSE task

\* the order in which the tasks settle
SettleOrder(i) == IF task[i].state = "pending" THEN Append(settled, i) ELSE settled

\* variant: the wait ends with the first task that settles
AnySettled == \E i \in Idx : task[i].state # "pending"

AllSettled == \A i \in Idx : task[i].state # "pending"

\* the continuation of execute after the await runs before any later event
MergeDue == pc = "waiting" /\ AllSettled

(***************************************************************************)
(* collectResult and the tail of execute.                                  *)
(***************************************************************************)
\* array.join(sep) of an array of strings
RECURSIVE Join(_, _)
Join(arr, sep) ==
    IF arr = <<>> THEN <<>>
    ELSE IF Len(arr) = 1 THEN arr[1]
    ELSE arr[1] \o <<sep>> \o Join(Tail(arr), sep)

\* variant: no null check, result.success of null throws a TypeError
collectResultNoNullCheck(result, title, results, errs) ==
    IF result.isNull
    THEN [threw |-> TRUE, results |-> results, errors |-> errs]
    ELSE IF result.success /\ Truthy(result.output)
    THEN [threw |-> FALSE,
          results |-> (IF Len(results) > 0 THEN results \o << <<>> >> ELSE results)
                          \o << title, <<>>, result.output[1] >>,
          errors |-> errs]
    ELSE IF Truthy(result.error)
    THEN [threw |-> FALSE, results |-> results, errors |-> Append(errs, result.error[1])]
    ELSE [threw |-> FALSE, results |-> results, errors |-> errs]

\* variant: a null result is reported as a failure
collectResultNullAsError(result, title, results, errs) ==
    IF result.isNull
    THEN [threw |-> FALSE, results |-> results, errors |-> Append(errs, <<"no result">>)]
    ELSE IF result.success /\ Truthy(result.output)
    THEN [threw |-> FALSE,
          results |-> (IF Len(results) > 0 THEN results \o << <<>> >> ELSE results)
                          \o << title, <<>>, result.output[1] >>,
          errors |-> errs]
    ELSE IF Truthy(result.error)
    THEN [threw |-> FALSE, results |-> results, errors |-> Append(errs, result.error[1])]
    ELSE [threw |-> FALSE, results |-> results, errors |-> errs]

\* variant: the success branch does not look at result.output
collectResultNoOutputCheck(result, title, results, errs) ==
    IF result.isNull
    THEN [threw |-> FALSE, results |-> results, errors |-> errs]
    ELSE IF result.success
    THEN [threw |-> FALSE,
          results |-> (IF Len(results) > 0 THEN results \o << <<>> >> ELSE results)
                          \o << title, <<>>, (IF result.output = <<>> THEN <<>> ELSE result.output[1]) >>,
          errors |-> errs]
    ELSE IF Truthy(result.error)
    THEN [threw |-> FALSE, results |-> results, errors |-> Append(errs, result.error[1])]
    ELSE [threw |-> FALSE, results |-> results, errors |-> errs]

\* threw: the call ended by an exception instead of returning
collectResult(result, title, results, errs) ==
    IF result.isNull
    THEN [threw |-> FALSE, results |-> results, errors |-> errs]
    ELSE IF result.success /\ Truthy(result.output)
    THEN [threw |-> FALSE,
          results |-> (IF Len(results) > 0 THEN results \o << <<>> >> ELSE results)
                          \o << title, <<>>, result.output[1] >>,
          errors |-> errs]
    ELSE IF Truthy(result.error)
    THEN [threw |-> FALSE, results |-> results, errors |-> Append(errs, result.error[1])]
    ELSE [threw |-> FALSE, results |-> results, errors |-> errs]

\* variant: the settlements are gathered in the order the tasks settle
settledResultsByCompletion ==
    [k \in Idx |-> IF k <= Len(settled) THEN task[settled[k]] ELSE Pending]

\* Promise.allSettled: the settlements in the order of the input array
settledResults == [i \in Idx |-> task[i]]

\* variant: the settlements are read from the far end of the array
QueryResultOfReversed(i) ==
    IF settledResults[NumPlatforms + 1 - i].state = "fulfilled"
    THEN settledResults[NumPlatforms + 1 - i].value
    ELSE Failure(Tag(platforms[i].name) \o ReasonText(settledResults[NumPlatforms + 1 - i].reason))

\* the loop over settledResults: the result merged for platform i
QueryResultOf(i) ==
    IF settledResults[i].state = "fulfilled"
    THEN settledResults[i].value
    ELSE Failure(Tag(platforms[i].name) \o ReasonText(settledResults[i].reason))

\* variant: the loop collects every platform twice
RECURSIVE CollectAllTwice(_)
CollectAllTwice(n) ==
    IF n = 0
    THEN [threw |-> FALSE, results |-> <<>>, errors |-> <<>>]
    ELSE CHOOSE c \in
             { IF acc.threw THEN acc
               ELSE collectResult(QueryResultOf(n), platforms[n].title, acc.results, acc.errors)
               : acc \in { IF a.threw THEN a
                           ELSE collectResult(QueryResultOf(n), platforms[n].title,
                                              a.results, a.errors)
                           : a \in {CollectAllTwice(n - 1)} } } : TRUE

\* the loop over queryResults, platforms 1..n in array order (acc is the pair of
\* arrays after n - 1 platforms)
RECURSIVE CollectAll(_)
CollectAll(n) ==
    IF n = 0
    THEN [threw |-> FALSE, results |-> <<>>, errors |-> <<>>]
    ELSE CHOOSE c \in
             { IF acc.threw THEN acc
               ELSE collectResult(QueryResultOf(n), platforms[n].title, acc.results, acc.errors)
               : acc \in {CollectAll(n - 1)} } : TRUE

\* variant: no special text when both arrays are empty
ComposeNoEmptyCase(results, errs) ==
    LET output == Join(results, NL)
    IN IF Len(errs) > 0
       THEN (IF output # <<>> THEN output \o <<NL, NL>> ELSE output)
                \o queryFailed \o Join(errs, NL)
       ELSE output

\* variant: one line break ahead of the failure header
ComposeOneBreak(results, errs) ==
    IF Len(results) = 0 /\ Len(errs) = 0
    THEN noAccounts
    ELSE LET output == Join(results, NL)
         IN IF Len(errs) > 0
            THEN (IF output # <<>> THEN output \o <<NL>> ELSE output)
                     \o queryFailed \o Join(errs, NL)
            ELSE output

\* variant: the blank line is added whether or not there is a success part
ComposeAlwaysBreak(results, errs) ==
    IF Len(results) = 0 /\ Len(errs) = 0
    THEN noAccounts
    ELSE LET output == Join(results, NL)
         IN IF Len(errs) > 0
            THEN output \o <<NL, NL>> \o queryFailed \o Join(errs, NL)
            ELSE output

\* step 4 of execute: the report from the two arrays
Compose(results, errs) ==
    IF Len(results) = 0 /\ Len(errs) = 0
    THEN noAccounts
    ELSE LET output == Join(results, NL)
         IN IF Len(errs) > 0
            THEN (IF output # <<>> THEN output \o <<NL, NL>> ELSE output)
                     \o queryFailed \o Join(errs, NL)
            ELSE output

(***************************************************************************)
(* Actions.                                                                *)
(***************************************************************************)
ExecuteInit ==
    /\ pc = "start"
    /\ next = 1
    /\ timeoutMs \in TimeoutChoices
    /\ query = [i \in Idx |-> "notcalled"]
    /\ timer = [i \in Idx |-> "none"]
    /\ race = [i \in Idx |-> "none"]
    /\ task = [i \in Idx |-> Pending]
    /\ settled = <<>>
    /\ clock = 0
    /\ outputResults = <<>>
    /\ errors = <<>>
    /\ execState = "pending"
    /\ report = <<>>
    /\ thrown = [i \in Idx |-> NoError]
    /\ calls = [i \in Idx |-> 0]

\* no body has been received
NoUsage ==
    [wellFormed |-> FALSE, copilot_plan |-> "", premium_interactions |-> <<>>,
     chat |-> <<>>, completions |-> <<>>, quota_reset_date |-> ""]

\* no call of queryCopilotUsage is under way
CopilotIdle ==
    /\ cpc = "idle"
    /\ authData = [defined |-> FALSE, type |-> "", refresh |-> <<>>]
    /\ requests = 0
    /\ response = [status |-> 0, ok |-> FALSE]
    /\ caught = NoError
    /\ copilotResult = Pending
    /\ usage = NoUsage
    /\ wallClock = 0

Init == ExecuteInit /\ CopilotIdle

\* readFile and JSON.parse succeed: execute goes on to build the platforms array
ReadAuthOk ==
    /\ pc = "start"
    /\ pc' = "launching"
    /\ UNCHANGED <<next, timeoutMs, query, timer, race, task, settled, clock,
                   outputResults, errors, execState, report, thrown, calls>>
    /\ UNCHANGED copilotVars

\* variant: the auth error is noted and execute goes on to the platforms
ReadAuthFailContinues ==
    /\ pc = "start"
    /\ \E err \in Thrown : report' = authError(authPath, ErrText(err))
    /\ pc' = "launching"
    /\ UNCHANGED <<next, timeoutMs, query, timer, race, task, settled, clock,
                   outputResults, errors, execState, thrown, calls>>
    /\ UNCHANGED copilotVars

\* readFile or JSON.parse throws: execute returns the auth error text
ReadAuthFail ==
    /\ pc = "start"
    /\ \E err \in Thrown :
         /\ report' = authError(authPath, ErrText(err))
         /\ execState' = "fulfilled"
    /\ pc' = "done"
    /\ UNCHANGED <<next, timeoutMs, query, timer, race, task, settled, clock,
                   outputResults, errors, thrown, calls>>
    /\ UNCHANGED copilotVars

\* variant: a platform is queried a second time before the map moves on
AdvanceAfterRetry(i) == IF calls[i] = 0 THEN i ELSE i + 1

\* platforms.map: the callback is called once for each element, in order
Advance(i) == i + 1

\* one call of the map callback: queryWithTimeout up to its await
Launch ==
    /\ pc = "launching"
    /\ next \in Idx
    /\ LET i == next
       IN \/ \E err \in Thrown :
               \* queryFn() throws: the catch block runs, no timer is set
               /\ query' = [query EXCEPT ![i] = "threw"]
               /\ task' = Settle(i, OnCaught(platforms[i].name, err))
               /\ settled' = SettleOrder(i)
               /\ thrown' = [thrown EXCEPT ![i] = err]
               /\ UNCHANGED <<timer, race>>
          \/ \* queryFn() returns its promise: the timer is set, the race awaited
             /\ query' = [query EXCEPT ![i] = "pending"]
             /\ timer' = [timer EXCEPT ![i] = "armed"]
             /\ race' = [race EXCEPT ![i] = "pending"]
             /\ UNCHANGED <<task, settled, thrown>>
    /\ calls' = [calls EXCEPT ![next] = @ + 1]
    /\ next' = Advance(next)
    /\ pc' = IF Advance(next) > NumPlatforms THEN "waiting" ELSE "launching"
    /\ UNCHANGED <<timeoutMs, clock, outputResults, errors, execState, report>>
    /\ UNCHANGED copilotVars

\* variant: the platforms are launched one after the other, each awaited in turn
SuspendedInLoop == pc \in {"launching", "waiting", "done"}

\* the synchronous part of execute (the whole map) has run: execute is suspended
\* at its await, or has returned, and the event loop runs callbacks
Suspended == pc \in {"waiting", "done"}

\* platform i's queryFn promise resolves with its result
QueryResolve(i) ==
    /\ Suspended
    /\ ~MergeDue
    /\ query[i] = "pending"
    /\ query' = [query EXCEPT ![i] = "resolved"]
    /\ race' = Race(i, "query")
    /\ \E result \in Results : task' = Settle(i, OnResult(result))
    /\ settled' = SettleOrder(i)
    /\ UNCHANGED <<pc, next, timeoutMs, timer, clock,
                   outputResults, errors, execState, report, thrown, calls>>
    /\ UNCHANGED copilotVars

\* platform i's queryFn promise rejects
QueryReject(i) ==
    /\ Suspended
    /\ ~MergeDue
    /\ query[i] = "pending"
    /\ query' = [query EXCEPT ![i] = "rejected"]
    /\ race' = Race(i, "query")
    /\ \E err \in Thrown : /\ task' = Settle(i, OnCaught(platforms[i].name, err))
                             /\ thrown' = [thrown EXCEPT ![i] = err]
    /\ settled' = SettleOrder(i)
    /\ UNCHANGED <<pc, next, timeoutMs, timer, clock,
                   outputResults, errors, execState, report, calls>>
    /\ UNCHANGED copilotVars

TimerDue(i) == timer[i] = "armed" /\ clock * 1000 >= timeoutMs

\* the setTimeout callback of platform i runs
TimerFire(i) ==
    /\ Suspended
    /\ ~MergeDue
    /\ TimerDue(i)
    /\ timer' = [timer EXCEPT ![i] = "fired"]
    /\ race' = Race(i, "timer")
    /\ task' = Settle(i, OnTimeout(platforms[i].name, timeoutMs))
    /\ settled' = SettleOrder(i)
    /\ UNCHANGED <<pc, next, timeoutMs, query, clock,
                   outputResults, errors, execState, report, thrown, calls>>
    /\ UNCHANGED copilotVars

\* time passes; a due timer runs before time passes further
Tick ==
    /\ Suspended
    /\ ~MergeDue
    /\ clock < MaxTicks
    /\ \E i \in Idx : timer[i] = "armed"
    /\ \A i \in Idx : ~TimerDue(i)
    /\ clock' = clock + 1
    /\ UNCHANGED <<pc, next, timeoutMs, query, timer, race, task, settled,
                   outputResults, errors, execState, report, thrown, calls>>
    /\ UNCHANGED copilotVars

\* execute resumes after await Promise.allSettled(...) and runs to its return
Merge ==
    /\ MergeDue
    /\ \E c \in {CollectAll(NumPlatforms)} :
         IF c.threw
         THEN /\ execState' = "rejected"
              /\ UNCHANGED <<outputResults, errors, report>>
         ELSE /\ outputResults' = c.results
              /\ errors' = c.errors
              /\ report' = Compose(c.results, c.errors)
              /\ execState' = "fulfilled"
    /\ pc' = "done"
    /\ UNCHANGED <<next, timeoutMs, query, timer, race, task, settled, clock,
                   thrown, calls>>
    /\ UNCHANGED copilotVars

(***************************************************************************)
(* lib/copilot.ts: queryCopilotUsage, the queryFn of the Copilot platform. *)
(***************************************************************************)
DayMs == 86400000
HourMs == 3600000

\* the credential records the auth file may hold for "github-copilot"
AuthTypes == {"oauth", "api"}
RefreshTokens == { <<>>, << <<>> >>, << <<"gho_a">> >>, << <<"gho_b">> >> }

AuthChoices ==
    { [defined |-> FALSE, type |-> "", refresh |-> <<>>] } \cup
    { [defined |-> TRUE, type |-> ty, refresh |-> r] : ty \in AuthTypes, r \in RefreshTokens }

\* variant: the kind of the credential is not looked at
HasAccountAnyType(a) == a.defined /\ Truthy(a.refresh)

\* the negation of: !authData || authData.type !== "oauth" || !authData.refresh
HasAccount(a) == a.defined /\ a.type = "oauth" /\ Truthy(a.refresh)

\* what fetchWithTimeout may reject with: a network error, its own timeout
FetchErrors == { ErrorObj(<<"fetch failed">>), ErrorObj(<<"The operation was aborted">>),
                 ErrorObj(<<>>), ThrownValue(<<"oops">>) }

Statuses == {200, 401, 403, 500}
ErrorTexts == { <<>>, <<"Bad credentials">> }

copilotApiError(status, text) ==
    <<"GitHub Copilot API request failed (", ToString(status), "): ">> \o text

\* the instants new Date() may give and the dates quota_reset_date may name,
\* as milliseconds
Nows == {0, 1800000, 7200000, 90000000}

DateTable == [d \in {"1970-01-01T00:30:00Z", "1970-01-02T01:00:00Z"} |->
                 IF d = "1970-01-01T00:30:00Z" THEN 1800000 ELSE 90000000]

\* new Date(resetDate).getTime()
DateMs(resetDate) == DateTable[resetDate]

\* a QuotaDetail: percent_remaining in tenths of a percent
Quota(unlimited, entitlement, remaining, tenths, overage) ==
    [unlimited |-> unlimited, entitlement |-> entitlement, remaining |-> remaining,
     percent_remaining |-> tenths, overage_count |-> overage]

\* the bodies response.json() may resolve to; wellFormed: quota_snapshots is there
Usages ==
    { [wellFormed |-> TRUE, copilot_plan |-> "individual",
       premium_interactions |-> <<Quota(FALSE, 300, 120, 400, 0)>>,
       chat |-> <<Quota(TRUE, 0, 0, 1000, 0)>>, completions |-> <<>>,
       quota_reset_date |-> "1970-01-02T01:00:00Z"],
      [wellFormed |-> TRUE, copilot_plan |-> "free",
       premium_interactions |-> <<Quota(FALSE, 50, 0, 5, 7)>>,
       chat |-> <<Quota(FALSE, 50, 25, 495, 0)>>,
       completions |-> <<Quota(FALSE, 2000, 1999, 999, 0)>>,
       quota_reset_date |-> "1970-01-01T00:30:00Z"],
      [wellFormed |-> TRUE, copilot_plan |-> "business",
       premium_interactions |-> <<Quota(TRUE, 0, 0, 1000, 0)>>,
       chat |-> <<>>, completions |-> <<>>,
       quota_reset_date |-> "1970-01-02T01:00:00Z"],
      [wellFormed |-> FALSE, copilot_plan |-> "",
       premium_interactions |-> <<>>, chat |-> <<>>, completions |-> <<>>,
       quota_reset_date |-> "1970-01-01T00:30:00Z"] }

\* Math.round of a number given in tenths
Round(tenths) == (tenths + 5) \div 10

\* name.padEnd(14) of the three quota names
PadEnd(name) ==
    IF name = "Premium" THEN <<name, "       ">>
    ELSE IF name = "Chat" THEN <<name, "          ">>
    ELSE <<name, "   ">>

\* createProgressBar(percent, width) of lib/utils.ts: a bar of width signs
createProgressBar(percent, width) ==
    <<"bar(" \o ToString(percent) \o "/" \o ToString(width) \o ")">>

formatQuotaLine(name, quota) ==
    IF quota = <<>> THEN <<>>
    ELSE IF quota[1].unlimited THEN PadEnd(name) \o <<" Unlimited">>
    ELSE PadEnd(name) \o <<" ">>
             \o createProgressBar(Round(quota[1].percent_remaining), 20)
             \o <<" ", ToString(Round(quota[1].percent_remaining)), "% (",
                  ToString(quota[1].entitlement - quota[1].remaining), "/",
                  ToString(quota[1].entitlement), ")">>

\* variant: the hours are not taken modulo one day
getResetCountdownTotalHours(resetDate, now) ==
    LET diffMs == DateMs(resetDate) - now
        days == diffMs \div DayMs
        hours == diffMs \div HourMs
    IN IF diffMs <= 0 THEN <<"Resets soon">>
       ELSE IF days > 0 THEN <<ToString(days), "d ", ToString(hours), "h">>
       ELSE <<ToString(hours), "h">>

\* now: the instant new Date() gives
getResetCountdown(resetDate, now) ==
    LET diffMs == DateMs(resetDate) - now
        days == diffMs \div DayMs
        hours == (diffMs % DayMs) \div HourMs
    IN IF diffMs <= 0 THEN <<"Resets soon">>
       ELSE IF days > 0 THEN <<ToString(days), "d ", ToString(hours), "h">>
       ELSE <<ToString(hours), "h">>

\* the lines array of formatCopilotUsage, joined
formatCopilotUsage(data, now) ==
    LET premium == data.premium_interactions
        premiumLine == formatQuotaLine("Premium", premium)
        chatLine == formatQuotaLine("Chat", data.chat)
        completionsLine == formatQuotaLine("Completions", data.completions)
        lines ==
            << <<"Account:", "        GitHub Copilot (", data.copilot_plan, ")">>, <<>> >>
            \o (IF premium # <<>> /\ premiumLine # <<>> THEN <<premiumLine>> ELSE <<>>)
            \o (IF premium # <<>> /\ premium[1].overage_count > 0
                THEN << <<"Overage", ": ", ToString(premium[1].overage_count), " ", "requests">> >>
                ELSE <<>>)
            \o (IF data.chat # <<>> /\ ~data.chat[1].unlimited /\ chatLine # <<>>
                THEN <<chatLine>> ELSE <<>>)
            \o (IF data.completions # <<>> /\ ~data.completions[1].unlimited
                   /\ completionsLine # <<>>
                THEN <<completionsLine>> ELSE <<>>)
            \o << <<>>,
                  <<"Quota resets", ": ">> \o getResetCountdown(data.quota_reset_date, now)
                      \o <<" (", data.quota_reset_date, ")">> >>
    IN Join(lines, NL)

\* data.quota_snapshots.premium_interactions of a body without quota_snapshots
FormatTypeError == ErrorObj(<<"Cannot read properties of undefined">>)

\* variant: the error is thrown on to the caller
OnCopilotCaughtRethrow(err) == Rejected(err)

\* the catch block of queryCopilotUsage
OnCopilotCaught(err) == Fulfilled(Failure(ErrText(err)))

\* a call of queryCopilotUsage starts with some credential record
CopilotInit ==
    /\ ExecuteInit
    /\ cpc = "start"
    /\ authData \in AuthChoices
    /\ requests = 0
    /\ response = [status |-> 0, ok |-> FALSE]
    /\ caught = NoError
    /\ copilotResult = Pending
    /\ usage = NoUsage
    /\ wallClock = 0

\* no usable credential: return null
CopilotNoAccount ==
    /\ cpc = "start"
    /\ ~HasAccount(authData)
    /\ copilotResult' = Fulfilled(NullResult)
    /\ cpc' = "done"
    /\ UNCHANGED <<authData, requests, response, caught, usage, wallClock>>
    /\ UNCHANGED executeVars

\* fetchCopilotUsage(authData.refresh) up to its await of fetchWithTimeout
CopilotRequest ==
    /\ cpc = "start"
    /\ HasAccount(authData)
    /\ requests' = requests + 1
    /\ cpc' = "fetching"
    /\ UNCHANGED <<authData, response, caught, copilotResult, usage, wallClock>>
    /\ UNCHANGED executeVars

\* fetchWithTimeout rejects: the catch block of queryCopilotUsage runs
FetchRejects ==
    /\ cpc = "fetching"
    /\ \E err \in FetchErrors :
         /\ caught' = err
         /\ copilotResult' = OnCopilotCaught(err)
    /\ cpc' = "done"
    /\ UNCHANGED <<authData, requests, response, usage, wallClock>>
    /\ UNCHANGED executeVars

\* fetchWithTimeout resolves with a response
FetchResponds ==
    /\ cpc = "fetching"
    /\ \E status \in Statuses :
         /\ response' = [status |-> status, ok |-> (status >= 200 /\ status <= 299)]
         /\ cpc' = IF status >= 200 /\ status <= 299 THEN "json" ELSE "text"
    /\ UNCHANGED <<authData, requests, caught, copilotResult, usage, wallClock>>
    /\ UNCHANGED executeVars

\* !response.ok: response.text() resolves and the Error of copilotApiError is
\* thrown, or response.text() rejects
TextSettles ==
    /\ cpc = "text"
    /\ \E err \in { ErrorObj(copilotApiError(response.status, text)) : text \in ErrorTexts }
                     \cup FetchErrors :
         /\ caught' = err
         /\ copilotResult' = OnCopilotCaught(err)
    /\ cpc' = "done"
    /\ UNCHANGED <<authData, requests, response, usage, wallClock>>
    /\ UNCHANGED executeVars

\* response.json() rejects
JsonRejects ==
    /\ cpc = "json"
    /\ \E err \in { ErrorObj(<<"Unexpected token < in JSON">>) } \cup FetchErrors :
         /\ caught' = err
         /\ copilotResult' = OnCopilotCaught(err)
    /\ cpc' = "done"
    /\ UNCHANGED <<authData, requests, response, usage, wallClock>>
    /\ UNCHANGED executeVars

\* response.json() resolves: formatCopilotUsage runs inside the try block
JsonResolves ==
    /\ cpc = "json"
    /\ \E data \in Usages, instant \in Nows :
         /\ usage' = data
         /\ IF data.wellFormed
            THEN /\ copilotResult' = Fulfilled(Success(formatCopilotUsage(data, instant)))
                 /\ wallClock' = instant
                 /\ UNCHANGED caught
            ELSE /\ caught' = FormatTypeError
                 /\ copilotResult' = OnCopilotCaught(FormatTypeError)
                 /\ UNCHANGED wallClock
    /\ cpc' = "done"
    /\ UNCHANGED <<authData, requests, response>>
    /\ UNCHANGED executeVars

CopilotNext ==
    \/ CopilotNoAccount
    \/ CopilotRequest
    \/ FetchRejects
    \/ FetchResponds
    \/ TextSettles
    \/ JsonRejects
    \/ JsonResolves

CopilotSpec == CopilotInit /\ [][CopilotNext]_vars

CopilotTypeOK ==
    /\ cpc \in {"idle", "start", "fetching", "text", "json", "done"}
    /\ authData \in AuthChoices
    /\ requests \in 0..1
    /\ copilotResult.state \in {"pending", "fulfilled", "rejected"}

Next ==
    \/ ReadAuthOk
    \/ ReadAuthFail
    \/ Launch
    \/ \E i \in Idx : QueryResolve(i)
    \/ \E i \in Idx : QueryReject(i)
    \/ \E i \in Idx : TimerFire(i)
    \/ Tick
    \/ Merge

Spec == Init /\ [][Next]_vars

\* every timer callback and every continuation that is due is run by the event
\* loop; nothing makes a query settle
EventLoop ==
    \/ ReadAuthOk
    \/ ReadAuthFail
    \/ Launch
    \/ Merge
    \/ Tick
    \/ \E i \in Idx : TimerFire(i)

FairSpec == Spec /\ WF_vars(EventLoop)

TypeOK ==
    /\ pc \in {"start", "launching", "waiting", "done"}
    /\ next \in 1..(NumPlatforms + 1)
    /\ \A i \in Idx : calls[i] \in 0..1 /\ thrown[i] \in Thrown \cup {NoError}
    /\ execState \in {"pending", "fulfilled", "rejected"}
    /\ \A i \in Idx : /\ query[i] \in {"notcalled", "threw", "pending", "resolved", "rejected"}
                      /\ timer[i] \in {"none", "armed", "fired"}
                      /\ race[i] \in {"none", "pending", "query", "timer"}
                      /\ (task[i].state = "pending") = (race[i] = "pending" \/ query[i] = "notcalled")
                      /\ task[i].state \in {"pending", "fulfilled", "rejected"}

(***************************************************************************)
(* Reading a report: its lines, its success part and its failure section.  *)
(***************************************************************************)
RECURSIVE SplitLines(_)
SplitLines(str) ==
    IF \A k \in 1..Len(str) : str[k] # NL
    THEN <<str>>
    ELSE LET k == CHOOSE x \in 1..Len(str) : str[x] = NL /\ \A y \in 1..(x - 1) : str[y] # NL
         IN <<SubSeq(str, 1, k - 1)>> \o SplitLines(SubSeq(str, k + 1, Len(str)))

HeaderLine == <<"(cross) Failed to query accounts:">>

Titles == { platforms[i].title : i \in Idx }

HeaderAt(lines) == { k \in 1..Len(lines) : lines[k] = HeaderLine }

\* the lines that follow the failure header
FailureLines(str) ==
    LET lines == SplitLines(str)
    IN IF HeaderAt(lines) = {} THEN <<>>
       ELSE LET h == CHOOSE k \in HeaderAt(lines) : \A m \in HeaderAt(lines) : k <= m
            IN SubSeq(lines, h + 1, Len(lines))

\* the lines ahead of the failure header
SuccessLines(str) ==
    LET lines == SplitLines(str)
    IN IF str = noAccounts THEN <<>>
       ELSE IF HeaderAt(lines) = {} THEN lines
       ELSE LET h == CHOOSE k \in HeaderAt(lines) : \A m \in HeaderAt(lines) : k <= m
            IN SubSeq(lines, 1, h - 1)

IsTitle(line) == line \in Titles

TitleLines(str) == SelectSeq(SuccessLines(str), IsTitle)

Range(seq) == { seq[k] : k \in 1..Len(seq) }

IsPrefix(pre, str) == Len(pre) <= Len(str) /\ SubSeq(str, 1, Len(pre)) = pre

Contains(str, sub) ==
    \E k \in 0..(Len(str) - Len(sub)) : SubSeq(str, k + 1, k + Len(sub)) = sub

\* the run went past the credential file and launched every platform
Launched == next = NumPlatforms + 1

Finished == pc = "done" /\ Launched

\* the outcome of platform i's task, once it has settled
IsAbsent(i) == task[i].state = "fulfilled" /\ task[i].value.isNull
IsSuccess(i) == task[i].state = "fulfilled" /\ ~task[i].value.isNull /\ task[i].value.success
IsFailure(i) == task[i].state = "fulfilled" /\ ~task[i].value.isNull /\ ~task[i].value.success

BodyOf(i) == IF task[i].value.output = <<>> THEN <<>> ELSE task[i].value.output[1]
MessageOf(i) == IF task[i].value.error = <<>> THEN <<>> ELSE task[i].value.error[1]

\* platform i's query settled the race with the result r
Answered(i, r) == race[i] = "query" /\ query[i] = "resolved" /\ task[i] = Fulfilled(r)

\* the title line, a blank line and the body, as one stretch of the report
Block(i) == platforms[i].title \o <<NL, NL>> \o BodyOf(i)

TaggedLines(str, i) ==
    SelectSeq(FailureLines(str), LAMBDA line : IsPrefix(Tag(platforms[i].name), line))

\* the platforms of the set S have no part in either list or in the report
Silent(S) ==
    /\ \A i \in S : /\ platforms[i].title \notin Range(outputResults)
                    /\ platforms[i].title \notin Range(SplitLines(report))
                    /\ TaggedLines(report, i) = <<>>
    /\ Len(errors) <= Cardinality({ j \in Idx \ S : IsFailure(j) })
    /\ Len(TitleLines(report)) <= Cardinality({ j \in Idx \ S : IsSuccess(j) })
    /\ Len(SelectSeq(outputResults, IsTitle)) <= Cardinality({ j \in Idx \ S : IsSuccess(j) })

(***************************************************************************)
(* Claims.                                                                 *)
(***************************************************************************)

\* C1: once the credential file is loaded, execute never rejects and always
\* resolves to a report, whatever the queryFns do (throw, reject, hang,
\* resolve to null, to a success or to a failure).
C1_NeverRejects ==
    /\ [](execState # "rejected")
    /\ [](pc = "launching" => <>(pc = "done" /\ execState = "fulfilled"))

C1_Witness ==
    /\ Finished /\ execState = "fulfilled"
    /\ \E i \in Idx : query[i] = "threw"
    /\ \E i \in Idx : race[i] = "timer" \/ IsAbsent(i) \/ query[i] = "rejected"

\* C2: with exactly one faulty platform (its queryFn throws, rejects or is
\* cut off by its timer), every other platform that answered with a success
\* of non-empty body has its title and body block in the report, every other
\* platform that answered with a failure has its message in the failure
\* section, and the faulty platform adds its own failure line and nothing else.
Faulty(i) == query[i] \in {"threw", "rejected"} \/ race[i] = "timer"

C2_Isolation ==
    (Finished /\ Cardinality({ i \in Idx : Faulty(i) }) = 1) =>
        \A f \in { i \in Idx : Faulty(i) } :
            /\ \A j \in Idx \ {f} :
                 /\ (IsSuccess(j) /\ BodyOf(j) # <<>>) => Contains(report, Block(j))
                 /\ IsFailure(j) => /\ MessageOf(j) \in Range(errors)
                                    /\ MessageOf(j) \in Range(FailureLines(report))
            /\ Len(TaggedLines(report, f)) = 1
            /\ platforms[f].title \notin Range(SplitLines(report))

\* C3: whatever the order in which the tasks settle, the titles of the
\* success blocks and the failure messages stand in the report, and in the
\* two lists, in the order of the platforms array.
RECURSIVE ExpectedTitles(_)
ExpectedTitles(n) ==
    IF n = 0 THEN <<>>
    ELSE ExpectedTitles(n - 1) \o
         (IF IsSuccess(n) /\ BodyOf(n) # <<>> THEN <<platforms[n].title>> ELSE <<>>)

RECURSIVE ExpectedMessages(_)
ExpectedMessages(n) ==
    IF n = 0 THEN <<>>
    ELSE ExpectedMessages(n - 1) \o
         (IF ~IsAbsent(n) /\ ~(IsSuccess(n) /\ BodyOf(n) # <<>>) /\ MessageOf(n) # <<>>
          THEN <<MessageOf(n)>> ELSE <<>>)

C3_RegistryOrder ==
    Finished =>
        /\ TitleLines(report) = ExpectedTitles(NumPlatforms)
        /\ FailureLines(report) = ExpectedMessages(NumPlatforms)
        /\ SelectSeq(outputResults, IsTitle) = ExpectedTitles(NumPlatforms)
        /\ errors = ExpectedMessages(NumPlatforms)

C3_Witness ==
    /\ Finished
    /\ Len(settled) = NumPlatforms /\ settled[1] > settled[2]
    /\ \/ Len(TitleLines(report)) >= 2
       \/ Len(FailureLines(report)) >= 2

\* C4: a platform whose query never settles is cut off by its timer: the run
\* completes, the failure section holds "[<name>] Request timeout (<s>s)"
\* with s = timeoutMs / 1000, and the platform has no success block.
TimeoutLine(i) ==
    <<"[", platforms[i].name, "]", " ", "Request timeout (">>
        \o NumberText(timeoutMs) \o <<"s)">>

TimedOutShown(i) ==
    /\ execState = "fulfilled"
    /\ TimeoutLine(i) \in Range(FailureLines(report))
    /\ TimeoutLine(i) \in Range(errors)
    /\ platforms[i].title \notin Range(outputResults)
    /\ platforms[i].title \notin Range(SplitLines(report))

C4_TimeoutEnforced ==
    \A i \in Idx :
        <>[](query[i] = "pending") => <>[](Finished /\ TimedOutShown(i))

C4_Witness ==
    \E i \in Idx : /\ Finished /\ query[i] = "pending" /\ timer[i] = "fired"
                   /\ timeoutMs % 1000 # 0
                   /\ TimedOutShown(i)

\* C5: nothing is returned and neither list is written before every task has
\* settled (its query threw, resolved or rejected, or its timer fired); the
\* lists and the report are written in the one step that follows that point.
TaskOver(i) == query[i] \in {"threw", "resolved", "rejected"} \/ timer[i] = "fired"

C5_WaitForAll ==
    [][ ( \/ report' # report
          \/ outputResults' # outputResults
          \/ errors' # errors
          \/ execState' # execState )
        => ( \/ pc = "start"
             \/ (pc = "waiting" /\ pc' = "done" /\ Launched /\ \A i \in Idx : TaskOver(i)) ) ]_vars

C5_Witness ==
    /\ Finished /\ execState = "fulfilled"
    /\ outputResults # <<>> /\ errors # <<>>
    /\ \E i \in Idx : timer[i] = "fired" /\ race[i] = "timer"

\* C6: a platform whose query resolves to null adds nothing to the success
\* list and nothing to the error list, whatever the other platforms do.
C6_AbsentSilent ==
    Finished => Silent({ i \in Idx : Answered(i, NullResult) })

C6_Witness ==
    /\ Finished /\ execState = "fulfilled"
    /\ \E i \in Idx : Answered(i, NullResult)
    /\ (outputResults # <<>> \/ errors # <<>>)

\* C7: every task whose outcome is a failure (from the timer, from the catch
\* block, or returned by the adapter) has its message in the error list and
\* in the failure section of the report.
C7_FailureSurfaced ==
    Finished =>
        \A i \in Idx : IsFailure(i) => /\ MessageOf(i) \in Range(errors)
                                       /\ MessageOf(i) \in Range(FailureLines(report))

\* C8: every line of the failure section starts with "[<name>] " for the name
\* of a platform that failed.
C8_FailuresTagged ==
    Finished =>
        \A k \in 1..Len(FailureLines(report)) :
            \E i \in Idx : /\ IsFailure(i)
                           /\ IsPrefix(Tag(platforms[i].name), FailureLines(report)[k])

\* C9: a platform that answers with a success whose output is the empty
\* string adds no success entry and no error entry.
C9_EmptyBodySilent ==
    Finished => Silent({ i \in Idx : Answered(i, Success(<<>>)) })

C9_Witness ==
    /\ Finished /\ execState = "fulfilled"
    /\ \E i \in Idx : Answered(i, Success(<<>>))
    /\ (outputResults # <<>> \/ errors # <<>>)

\* C10: a platform that answers with a success whose output is blank (only
\* white space) adds no success entry and no error entry.
C10_BlankBodySilent ==
    Finished => Silent({ i \in Idx : Answered(i, Success(<<" ">>)) })

\* C11: the report is the no-accounts text exactly when both lists are empty
\* after the merge; so it is for a platforms array without entries and when
\* every platform is absent (its query resolved to null).
EmptyRegistryReport == Compose(CollectAll(0).results, CollectAll(0).errors)

C11_TotalEmpty ==
    /\ EmptyRegistryReport = noAccounts
    /\ (Finished /\ execState = "fulfilled") =>
         /\ (report = noAccounts) <=> (outputResults = <<>> /\ errors = <<>>)
         /\ (\A i \in Idx : IsAbsent(i)) => report = noAccounts

C11_Witness ==
    /\ Finished /\ execState = "fulfilled"
    /\ \A i \in Idx : Answered(i, NullResult)
    /\ report = noAccounts

\* C12: when queryFn throws on its call, or its promise rejects ahead of the
\* timer, the task is fulfilled with the failure "[<name>] <text>", the text
\* being the message of an Error and the string form of any other value; no
\* task is ever rejected.
CaughtText(err) == IF err.isError THEN err.text ELSE ReasonText(err)

CaughtAtBoundary(i) == query[i] = "threw" \/ (query[i] = "rejected" /\ race[i] = "query")

C12_TaskBoundary ==
    \A i \in Idx :
        /\ task[i].state # "rejected"
        /\ CaughtAtBoundary(i) =>
             task[i] = [state |-> "fulfilled", reason |-> NoError,
                        value |-> [isNull |-> FALSE, success |-> FALSE, output |-> <<>>,
                                   error |-> << <<"[", platforms[i].name, "]", " ">>
                                                   \o CaughtText(thrown[i]) >>]]

C12_Witness ==
    /\ Finished /\ execState = "fulfilled"
    /\ \E i \in Idx : query[i] = "threw" /\ thrown[i].isError
    /\ \E i \in Idx : query[i] = "rejected" /\ race[i] = "query" /\ ~thrown[i].isError

\* C13: once the timer of a platform has settled its race, the task stays the
\* timeout failure: a later resolution or rejection of the query changes
\* neither the task, nor the lists, nor the report, and the run does not
\* reject; the merged report shows the timeout line for that platform.
LateSettle(i) == race[i] = "timer" /\ query[i] = "pending" /\ query'[i] # "pending"

C13_LateDiscarded ==
    /\ [][ \A i \in Idx :
              /\ race[i] = "timer" =>
                    /\ task[i] = Fulfilled(Failure(TimeoutLine(i)))
                    /\ task'[i] = task[i]
              /\ LateSettle(i) =>
                    /\ task' = task
                    /\ UNCHANGED <<outputResults, errors, report, execState>> ]_vars
    /\ [](execState # "rejected")
    /\ []((Finished /\ \E i \in Idx : race[i] = "timer") =>
             \A i \in Idx : race[i] = "timer" => TimedOutShown(i))

C13_Witness ==
    /\ Finished /\ execState = "fulfilled"
    /\ \E i \in Idx : race[i] = "timer" /\ query[i] = "resolved" /\ TimedOutShown(i)
    /\ \E i \in Idx : race[i] = "timer" /\ query[i] = "rejected" /\ TimedOutShown(i)

\* C14: with a success list that is not empty, the report is the success
\* entries (title line, blank line, body) with one blank line between two
\* entries; with an error list that is not empty, a blank line, the failure
\* header and the messages, one on each line, follow.
RECURSIVE ExpectedBlocks(_)
ExpectedBlocks(n) ==
    IF n = 0 THEN <<>>
    ELSE ExpectedBlocks(n - 1) \o
         (IF IsSuccess(n) /\ BodyOf(n) # <<>> THEN <<Block(n)>> ELSE <<>>)

RECURSIVE JoinWith(_, _)
JoinWith(parts, sep) ==
    IF parts = <<>> THEN <<>>
    ELSE IF Len(parts) = 1 THEN parts[1]
    ELSE parts[1] \o sep \o JoinWith(Tail(parts), sep)

FailureSection == HeaderLine \o <<NL>> \o JoinWith(errors, <<NL>>)

C14_Composition ==
    (Finished /\ execState = "fulfilled" /\ outputResults # <<>>) =>
        /\ ExpectedBlocks(NumPlatforms) # <<>>
        /\ JoinWith(outputResults, <<NL>>) = JoinWith(ExpectedBlocks(NumPlatforms), <<NL, NL>>)
        /\ report = JoinWith(ExpectedBlocks(NumPlatforms), <<NL, NL>>)
                        \o (IF errors # <<>> THEN <<NL, NL>> \o FailureSection ELSE <<>>)

C14_Witness ==
    /\ Finished /\ execState = "fulfilled"
    /\ outputResults # <<>> /\ errors # <<>>
    /\ \E i \in Idx : IsSuccess(i) /\ BodyOf(i) = <<"X">>

\* C15: with an empty success list and an error list that is not empty, the
\* report is the failure header and the messages, one on each line: no blank
\* line ahead of the header, no title.
C15_FailuresOnly ==
    (Finished /\ execState = "fulfilled" /\ outputResults = <<>> /\ errors # <<>>) =>
        /\ report = FailureSection
        /\ SplitLines(report)[1] = HeaderLine
        /\ \A k \in 1..Len(SplitLines(report)) : ~IsTitle(SplitLines(report)[k])

C15_Witness ==
    /\ Finished /\ execState = "fulfilled"
    /\ \E i \in Idx :
         /\ race[i] = "timer"
         /\ \A j \in Idx \ {i} : IsAbsent(j)
         /\ report = HeaderLine \o <<NL>> \o TimeoutLine(i)

\* C16: at the merge every platform has one outcome, which is a success, a
\* failure or absent; a platform adds at most one entry in all: its title
\* once in the success list, or one message in the error list, never both.
OutcomeKinds(i) == { k \in {"absent", "success", "failure"} :
                        \/ k = "absent" /\ IsAbsent(i)
                        \/ k = "success" /\ IsSuccess(i)
                        \/ k = "failure" /\ IsFailure(i) }

TitleCount(i) == Cardinality({ k \in 1..Len(outputResults) : outputResults[k] = platforms[i].title })

C16_OneOutcome ==
    (Finished /\ execState = "fulfilled") =>
        /\ \A i \in Idx : Cardinality(OutcomeKinds(i)) = 1
        /\ \A i \in Idx : TitleCount(i) <= 1 /\ (TitleCount(i) = 1 => IsSuccess(i))
        /\ Len(SelectSeq(outputResults, IsTitle)) = Cardinality({ i \in Idx : TitleCount(i) = 1 })
        /\ Len(errors) <= Cardinality({ i \in Idx : TitleCount(i) = 0 /\ ~IsAbsent(i) })

C16_Witness ==
    /\ Finished /\ execState = "fulfilled"
    /\ \E i \in Idx : IsSuccess(i) /\ TitleCount(i) = 1
    /\ \E i \in Idx : IsFailure(i) /\ Len(errors) = 1

\* C17: each platform's queryFn is called once in a run: once it has been
\* called it is not called again, whether it threw, failed, rejected or was
\* cut off by its timer.
C17_SingleAttempt ==
    /\ [](\A i \in Idx : calls[i] <= 1 /\ (Launched => calls[i] = 1))
    /\ [][ \A i \in Idx :
              calls'[i] # calls[i] =>
                  (calls[i] = 0 /\ calls'[i] = 1 /\ query[i] = "notcalled") ]_vars

C17_Witness ==
    /\ Finished /\ execState = "fulfilled"
    /\ \A i \in Idx : calls[i] = 1
    /\ \E i \in Idx : race[i] = "timer"
    /\ \E i \in Idx : query[i] \in {"threw", "rejected"} \/ IsFailure(i)

\* C18: when execute comes to wait on the tasks, every platform's queryFn has
\* been called and its timer started; no call waits for another platform's
\* query to settle or for a timer.
C18_LaunchTogether ==
    (Suspended /\ Launched) => \A i \in Idx : calls[i] = 1 /\ timer[i] # "none"

\* C18 as amended: a queryFn that throws on its call has no timer (its task
\* is settled already); every other platform's timer is started; all calls
\* come before any query settles, any timer fires or any time passes.
C18_LaunchTogetherAmended ==
    /\ []((Suspended /\ Launched) =>
             \A i \in Idx :
                 /\ calls[i] = 1
                 /\ (query[i] # "threw" => timer[i] # "none")
                 /\ (query[i] = "threw" => (timer[i] = "none" /\ task[i].state = "fulfilled")))
    /\ [][ (\E i \in Idx : calls'[i] # calls[i]) =>
              /\ clock = 0
              /\ \A j \in Idx :
                    /\ query[j] \in {"notcalled", "threw", "pending"}
                    /\ timer[j] # "fired" ]_vars

C18_Witness ==
    /\ pc = "waiting" /\ Launched /\ clock = 0
    /\ \E i \in Idx : query[i] = "threw" /\ timer[i] = "none"
    /\ \E i \in Idx : query[i] = "pending" /\ timer[i] = "armed"

\* C19: queryCopilotUsage resolves to null exactly when authData is undefined,
\* or its type is not "oauth", or its refresh token is missing or empty, and
\* it then sends no request; in every other case it sends one request and
\* resolves to a result that is not null.
NoUsableCredential ==
    \/ ~authData.defined
    \/ authData.type # "oauth"
    \/ authData.refresh = <<>>
    \/ authData.refresh = << <<>> >>

C19_NullIffNoCredential ==
    /\ (cpc = "done") =>
          /\ copilotResult.state = "fulfilled"
          /\ copilotResult.value.isNull <=> NoUsableCredential
          /\ copilotResult.value.isNull => requests = 0
          /\ ~copilotResult.value.isNull => requests = 1
    /\ (cpc \notin {"idle", "start", "done"}) => ~NoUsableCredential
    /\ NoUsableCredential => requests = 0

C19_Witness ==
    /\ cpc = "done"
    /\ authData.defined /\ authData.type = "api" /\ authData.refresh = << <<"gho_a">> >>
    /\ copilotResult = Fulfilled(NullResult)
    /\ requests = 0

\* C20: queryCopilotUsage never rejects: with a usable credential every error
\* of the request (fetch rejected, status not OK, body not parsable or not of
\* the expected shape) gives {success: false, error: <message>}, and a
\* result with success = true comes only from an OK response without error.
ExpectedMessage == IF caught.isError THEN caught.text ELSE ReasonText(caught)

C20_CopilotNeverRejects ==
    /\ copilotResult.state # "rejected"
    /\ (cpc = "done" /\ ~NoUsableCredential) =>
          /\ copilotResult.state = "fulfilled"
          /\ ~copilotResult.value.isNull
          /\ (caught # NoError \/ ~response.ok) =>
                /\ caught # NoError
                /\ copilotResult.value = [isNull |-> FALSE, success |-> FALSE,
                                           output |-> <<>>, error |-> <<ExpectedMessage>>]
          /\ copilotResult.value.success =>
                /\ response.ok /\ response.status = 200 /\ caught = NoError
                /\ Truthy(copilotResult.value.output)
                /\ copilotResult.value.error = <<>>
          /\ (response.status # 0 /\ ~response.ok) =>
                \E text \in ErrorTexts \cup { e.text : e \in FetchErrors } :
                    copilotResult.value.error =
                        << <<"GitHub Copilot API request failed (",
                             ToString(response.status), "): ">> \o text >>
                    \/ copilotResult.value.error = <<text>>

C20_Witness ==
    /\ cpc = "done" /\ ~NoUsableCredential
    /\ response.status = 401 /\ ~response.ok
    /\ copilotResult.value.error =
           << <<"GitHub Copilot API request failed (", "401", "): ", "Bad credentials">> >>

\* C21: the body the Copilot adapter renders depends on the usage response
\* only: formatting the same response at any other instant gives the same
\* body.
CopilotSucceeded ==
    cpc = "done" /\ copilotResult.state = "fulfilled" /\ copilotResult.value.success

C21_DeterministicBody ==
    CopilotSucceeded =>
        \A instant \in Nows : copilotResult.value.output = <<formatCopilotUsage(usage, instant)>>

TitleAt(i) == { k \in 1..Len(outputResults) : outputResults[k] = platforms[i].title }

OrchestratorMessage(i) ==
    IF race[i] = "timer" THEN TimeoutLine(i)
    ELSE <<"[", platforms[i].name, "]", " ">> \o CaughtText(thrown[i])

C23_Pairing ==
    Finished =>
        \A i \in Idx :
            /\ (IsSuccess(i) /\ BodyOf(i) # <<>>) => TitleAt(i) # {}
            /\ \A k \in TitleAt(i) :
                  /\ IsSuccess(i)
                  /\ k + 2 <= Len(outputResults)
                  /\ outputResults[k + 1] = <<>>
                  /\ outputResults[k + 2] = BodyOf(i)
                  /\ Contains(report, Block(i))
            /\ Faulty(i) => /\ OrchestratorMessage(i) \in Range(errors)
                            /\ OrchestratorMessage(i) \in Range(FailureLines(report))
            /\ \A e \in Range(errors) :
                  IsPrefix(<<"[", platforms[i].name, "]", " ">>, e) =>
                      (Faulty(i) /\ e = OrchestratorMessage(i))

C23_Witness ==
    /\ Finished /\ execState = "fulfilled"
    /\ Len(settled) >= 2 /\ settled[1] > settled[2]
    /\ \E i \in Idx : IsSuccess(i) /\ BodyOf(i) = <<"L1", NL, "L2">> /\ TitleAt(i) # {}
    /\ \E i \in Idx : race[i] = "timer" /\ TimeoutLine(i) \in Range(errors)

\* C24: when reading or parsing the auth file fails, execute resolves to the
\* auth error text with the path and the error, and no queryFn is called and
\* no timer started.
AuthErrorShown ==
    report # <<>> /\ report[1] = "(cross) Failed to read auth file: "

C24_AuthFailure ==
    /\ AuthErrorShown =>
          /\ pc = "done" /\ execState = "fulfilled"
          /\ \E err \in Thrown :
                report = <<"(cross) Failed to read auth file: ",
                           "~/.local/share/opencode/auth.json", NL, "Error: ">>
                             \o CaughtText(err)
          /\ \A i \in Idx : /\ calls[i] = 0
                            /\ query[i] = "notcalled"
                            /\ timer[i] = "none"
                            /\ task[i].state = "pending"
          /\ outputResults = <<>> /\ errors = <<>>
    /\ (pc = "done" /\ ~Launched) => AuthErrorShown

C24_Witness ==
    /\ pc = "done" /\ AuthErrorShown /\ execState = "fulfilled"
    /\ \A i \in Idx : calls[i] = 0 /\ timer[i] = "none"

\* C25: when the query of a platform settles ahead of its deadline, the task
\* is the query's result and stays so; the timer is not cancelled and fires
\* once timeoutMs has passed, and its firing changes neither the task, nor
\* the lists, nor the report; no timeout line is shown for that platform.
StaleFire(i) == race[i] = "query" /\ timer[i] = "armed" /\ timer'[i] = "fired"

C25_StaleTimer ==
    /\ [][ \A i \in Idx :
              /\ (race[i] = "pending" /\ race'[i] = "query" /\ query'[i] = "resolved") =>
                    (task'[i].state = "fulfilled" /\ task'[i].value \in Results
                       /\ timer'[i] = "armed")
              /\ race[i] = "query" => (task'[i] = task[i] /\ race'[i] = "query")
              /\ StaleFire(i) =>
                    /\ clock * 1000 >= timeoutMs
                    /\ task' = task
                    /\ UNCHANGED <<outputResults, errors, report, execState>> ]_vars
    /\ []((Finished /\ execState = "fulfilled") =>
             \A i \in Idx : race[i] = "query" =>
                 /\ TimeoutLine(i) \notin Range(errors)
                 /\ TimeoutLine(i) \notin Range(FailureLines(report)))
    /\ \A i \in Idx : [](timer[i] = "armed" => <>(timer[i] = "fired"))

C25_Witness ==
    /\ Finished /\ execState = "fulfilled"
    /\ \E i \in Idx : /\ Answered(i, Success(<<"X">>))
                      /\ timer[i] = "fired"
                      /\ Contains(report, Block(i))

\* C26: getResetCountdown, with diff the reset instant minus the current
\* instant in milliseconds: "Resets soon" when diff <= 0; else, with d the
\* whole days in diff and h the whole hours in the rest (h in 0..23),
\* "<d>d <h>h" when d > 0 and "<h>h" when d = 0.
ExpectedCountdown(diff) ==
    IF diff <= 0 THEN <<"Resets soon">>
    ELSE LET d == CHOOSE x \in 0..366 : x * 86400000 <= diff /\ diff < (x + 1) * 86400000
             h == CHOOSE y \in 0..23 : /\ y * 3600000 <= diff - d * 86400000
                                       /\ diff - d * 86400000 < (y + 1) * 3600000
         IN IF d > 0 THEN <<ToString(d), "d ", ToString(h), "h">>
            ELSE <<ToString(h), "h">>

LastLine(str) == SplitLines(str)[Len(SplitLines(str))]

ResetDiff == DateTable[usage.quota_reset_date] - wallClock

C26_ResetCountdown ==
    CopilotSucceeded =>
        LastLine(copilotResult.value.output[1]) =
            <<"Quota resets", ": ">> \o ExpectedCountdown(ResetDiff)
                \o <<" (", usage.quota_reset_date, ")">>

C26_Witness ==
    /\ CopilotSucceeded
    /\ ResetDiff > 0 /\ ResetDiff < 3600000
    /\ LastLine(copilotResult.value.output[1]) =
           <<"Quota resets", ": ", "0", "h", " (", usage.quota_reset_date, ")">>

====
